---- MODULE Spec2Model ----
(***************************************************************************)
(* The useMapData hook (src/unnamed/part_000, lines 488-1000) as a state   *)
(* machine: three loaders (Head Start programs = sites, congressional      *)
(* districts = zones, Congress.gov data = enrichment), the two effects     *)
(* that start them, their backoff timers and retryLoading.                 *)
(*                                                                         *)
(* React is modelled as it schedules the hook: a handler (a fetch          *)
(* continuation, a timer callback, a user call) applies its state updates  *)
(* as one batch; Render commits the batch, re-creates the useCallback      *)
(* closures whose dependencies changed and schedules the effects whose     *)
(* dependencies changed; FlushEffects runs the scheduled effects.  A       *)
(* closure reads the values of the render that created it, so every        *)
(* attempt and every timer carries the retry count its closure captured.   *)
(*                                                                         *)
(* Scheduling: a fetch may settle, a timer may fire and retryLoading may   *)
(* be called between a handler and the render that commits its updates;    *)
(* the passive effects of a commit run before any other callback; time     *)
(* (Tick, in steps of BaseDelayMs) passes only while nothing is left to    *)
(* render.  The bounds only delay steps: a render, a timer, a failure or   *)
(* a call that would exceed one waits until a fetch settled or a timer     *)
(* fired.                                                                  *)
(***************************************************************************)
EXTENDS Integers, Sequences, FiniteSets, TLC

(***************************************************************************)
(* Bounds of the model.                                                    *)
(***************************************************************************)
\* Attempts of one source awaiting their fetch at the same time
MaxInFlight == 3
\* Timers of one source pending at the same time
MaxTimers == 1
\* Failing responses in one run
MaxFaults == 3
\* Failing responses in one run in which only the sites fail
MaxSiteFaults == 4
\* Responses outside the common ones are delivered while fewer faults occurred
RareUntilFaults == 1
\* Member records in the response of the enrichment fetch
MaxMembers == 2
\* Failing responses in one run in which the layers are switched
MaxLayerFaults == 1
\* The largest minimum search length a caller of useSearch passes
MaxSearchLength == 3
\* Points asked about have latitude and longitude in -GridSize .. GridSize - 1
GridSize == 5

\* The longest list of raw site records given to processHeadStartPrograms
MaxRecords == 3

(***************************************************************************)
(* Program constants.                                                      *)
(***************************************************************************)
MAX_RETRY_ATTEMPTS == 3
BaseDelayMs == 1000
NumDistricts == 36
TexasNorth == 365007
TexasSouth == 258371
TexasEast == -935080
TexasWest == -1066456

Null == "null"
Undefined == "undefined"
\* !!value of a value that is a string, null or undefined
Truthy(value) == value \notin {Null, Undefined, ""}

RECURSIVE Pow2(_)
Pow2(n) == IF n <= 0 THEN 1 ELSE 2 * Pow2(n - 1)

\* 1000 * Math.pow(2, retryCount) of the closure that failed
BackoffDelay(count) == BaseDelayMs * Pow2(count)

MaxDelayMs == BackoffDelay(MAX_RETRY_ATTEMPTS - 1)

(***************************************************************************)
(* Strings that are trimmed are sequences of one-character strings.        *)
(***************************************************************************)
RECURSIVE TrimStart(_)
TrimStart(s) == IF s # <<>> /\ Head(s) = " " THEN TrimStart(Tail(s)) ELSE s

RECURSIVE TrimEnd(_)
TrimEnd(s) ==
    IF s # <<>> /\ s[Len(s)] = " " THEN TrimEnd(SubSeq(s, 1, Len(s) - 1)) ELSE s

Trim(s) == TrimEnd(TrimStart(s))

\* A JSON value used as a coordinate: a number, or something else
Num(n) == [isNumber |-> TRUE, value |-> n]
NotANumber == [isNumber |-> FALSE, value |-> 0]

(***************************************************************************)
(* src/src/data/headStartPrograms.ts.  Coordinates are in 1/10000 degree.  *)
(***************************************************************************)
isWithinTexasBounds(lat, lng) ==
    /\ lat >= TexasSouth
    /\ lat <= TexasNorth
    /\ lng >= TexasWest
    /\ lng <= TexasEast

\* The validation without its last test
validateHeadStartProgramAnywhere(program) ==
    IF program.name = <<>> \/ program.address = <<>> \/ program.id = <<>>
    THEN FALSE
    ELSE program.lat.isNumber /\ program.lng.isNumber

validateHeadStartProgram(program) ==
    IF program.name = <<>> \/ program.address = <<>> \/ program.id = <<>>
    THEN FALSE
    ELSE IF ~program.lat.isNumber \/ ~program.lng.isNumber
    THEN FALSE
    ELSE isWithinTexasBounds(program.lat.value, program.lng.value)

\* program.name.trim() throws a TypeError when name (or address) is not a string, and
\* program.coordinates.lat when the record has no coordinates
ProcessThrows(rawData) ==
    \E i \in 1..Len(rawData) :
        \/ "name" \notin DOMAIN rawData[i]
        \/ "address" \notin DOMAIN rawData[i]
        \/ "coordinates" \notin DOMAIN rawData[i]

\* program.coordinates[axis]: undefined, which is not a number, when it is absent
Coordinate(program, axis) ==
    IF axis \in DOMAIN program.coordinates THEN program.coordinates[axis] ELSE NotANumber

MapHeadStartProgram(program, index) ==
    [id      |-> <<"program-", index>>,
     name    |-> Trim(program.name),
     address |-> Trim(program.address),
     lat     |-> Coordinate(program, "lat"),
     lng     |-> Coordinate(program, "lng"),
     type    |-> "head-start",
     grantee |-> Trim(program.name),
     funding |-> Undefined]

processHeadStartPrograms(rawData) ==
    SelectSeq([i \in 1..Len(rawData) |-> MapHeadStartProgram(rawData[i], i - 1)],
              validateHeadStartProgram)

(***************************************************************************)
(* Site responses the fetch of headStartPrograms.json can produce.         *)
(***************************************************************************)
RawAustin ==
    [name |-> <<" ", "A">>, address |-> <<"1", " ">>,
     coordinates |-> [lat |-> Num(302672), lng |-> Num(-977431)]]
RawHouston ==
    [name |-> <<"H">>, address |-> <<"2">>,
     coordinates |-> [lat |-> Num(297604), lng |-> Num(-953698)]]
RawBadLat ==
    [name |-> <<"B">>, address |-> <<"3">>,
     coordinates |-> [lat |-> NotANumber, lng |-> Num(-953698)]]
RawOutside ==
    [name |-> <<"O">>, address |-> <<"4">>,
     coordinates |-> [lat |-> Num(407128), lng |-> Num(-740060)]]
RawNoName ==
    [address |-> <<"5">>,
     coordinates |-> [lat |-> Num(302672), lng |-> Num(-977431)]]

SiteBodies ==
    { <<RawAustin, RawBadLat, RawHouston>>,
      <<RawOutside>>,
      <<RawAustin, RawNoName>> }

SiteResponses ==
    [kind : {"failedToFetch", "rejected", "http", "unparsable", "notArray"}]
        \cup [kind : {"array"}, body : SiteBodies]

\* The responses delivered at any time; the others only before RareUntilFaults faults
CommonSiteResponses ==
    { [kind |-> "failedToFetch"],
      [kind |-> "array", body |-> <<RawAustin, RawBadLat, RawHouston>>] }

\* The error a throw inside the try block of a loader carries
Thrown(type, message) == [type |-> type, message |-> message]

\* try block of loadHeadStartPrograms: the programs it sets, or what it throws
ProgramsTry(resp) ==
    IF resp.kind = "failedToFetch"
    THEN [ok |-> FALSE, error |-> Thrown("TypeError", "Failed to fetch")]
    ELSE IF resp.kind = "rejected"
    THEN [ok |-> FALSE, error |-> Thrown("TypeError", "NetworkError")]
    ELSE IF resp.kind = "http"
    THEN [ok |-> FALSE, error |-> Thrown("Error", "HTTP status")]
    ELSE IF resp.kind = "unparsable"
    THEN [ok |-> FALSE, error |-> Thrown("Error", "Failed to parse")]
    ELSE IF resp.kind = "notArray"
    THEN [ok |-> FALSE, error |-> Thrown("Error", "Expected an array")]
    ELSE IF ProcessThrows(resp.body)
    THEN [ok |-> FALSE, error |-> Thrown("TypeError", "Cannot read properties of undefined")]
    ELSE IF Len(processHeadStartPrograms(resp.body)) = 0
    THEN [ok |-> FALSE, error |-> Thrown("Error", "No valid records")]
    ELSE [ok |-> TRUE, programs |-> processHeadStartPrograms(resp.body)]

\* The try block's outcome for every response (evaluated once)
ProgramsOutcome == [resp \in SiteResponses |-> ProgramsTry(resp)]

\* A catch block that has a message for transport failures only
ErrorMessageForNetworkOnly(error) ==
    IF error.type = "TypeError" /\ error.message = "Failed to fetch"
    THEN "Network error"
    ELSE Null

\* catch block of the loaders: the message stored for a thrown error
ErrorMessage(error) ==
    IF error.type = "TypeError" /\ error.message = "Failed to fetch"
    THEN "Network error"
    ELSE IF error.type = "SyntaxError"
    THEN "Data format error"
    ELSE "Failed to load: " \o error.message

(***************************************************************************)
(* Zones: loadCongressionalDistricts fetches TX-1 .. TX-36, one fetch per  *)
(* index.  A response of the batch gives the outcome of every index.       *)
(***************************************************************************)
DistrictNumbers == 1..NumDistricts

getOrdinalSuffix(num) ==
    LET j == num % 10
        k == num % 100
    IN  IF j = 1 /\ k # 11 THEN "st"
        ELSE IF j = 2 /\ k # 12 THEN "nd"
        ELSE IF j = 3 /\ k # 13 THEN "rd"
        ELSE "th"

\* The values a districtNumber can hold, as its type and its value in halves: whole
\* numbers, fractions such as 1.5, NaN, and a value that is not a number
Whole(n) == [typeof |-> "number", isNaN |-> FALSE, halves |-> 2 * n]
Halves(h) == [typeof |-> "number", isNaN |-> FALSE, halves |-> h]
NaN == [typeof |-> "number", isNaN |-> TRUE, halves |-> 0]
NotNumeric == [typeof |-> "string", isNaN |-> FALSE, halves |-> 0]

\* value < 1, which is false for NaN
LessThanOne(value) == ~value.isNaN /\ value.halves < 2

DistrictFeature(districtNum) ==
    [type       |-> "Feature",
     properties |-> [district       |-> "TX-" \o ToString(districtNum),
                     name           |-> "Texas " \o ToString(districtNum)
                                        \o getOrdinalSuffix(districtNum)
                                        \o " Congressional District",
                     representative |-> "Representative " \o ToString(districtNum),
                     districtNumber |-> Whole(districtNum),
                     state          |-> "TX"],
     geometry   |-> [isNull |-> FALSE, coordinates |-> "coordinates"]]

ProcessedDistrict(districtNum) ==
    [number         |-> districtNum,
     representative |-> "Representative " \o ToString(districtNum),
     population     |-> 750000,
     geoJsonFeature |-> districtNum]

\* src/unnamed/part_011: validateCongressionalDistrict
validateCongressionalDistrict(district) ==
    IF \/ district.properties.district = ""
       \/ district.properties.name = ""
       \/ district.properties.representative = ""
    THEN FALSE
    ELSE IF \/ district.properties.districtNumber.typeof # "number"
            \/ LessThanOne(district.properties.districtNumber)
    THEN FALSE
    ELSE IF district.properties.state # "TX"
    THEN FALSE
    ELSE IF district.geometry.isNull \/ district.geometry.coordinates \in {Null, Undefined}
    THEN FALSE
    ELSE TRUE

\* A batch response gives every index the outcome of its fetch: "ok", or the way it
\* fails ("http", "unparsable", "noGeometry", "throws")
AllOk == [n \in DistrictNumbers |-> "ok"]
Missing14 == [n \in DistrictNumbers |-> IF n = 14 THEN "http" ELSE "ok"]
OnlyTwoAndFive ==
    [n \in DistrictNumbers |->
        IF n \in {2, 5} THEN "ok"
        ELSE IF n % 4 = 0 THEN "http"
        ELSE IF n % 4 = 1 THEN "unparsable"
        ELSE IF n % 4 = 2 THEN "noGeometry"
        ELSE "throws"]
NoneOk ==
    [n \in DistrictNumbers |->
        IF n % 4 = 0 THEN "http"
        ELSE IF n % 4 = 1 THEN "unparsable"
        ELSE IF n % 4 = 2 THEN "noGeometry"
        ELSE "throws"]

ZoneResponses == {AllOk, Missing14, OnlyTwoAndFive, NoneOk}

CommonZoneResponses == {Missing14, NoneOk}

\* The async callback of districtNumbers.map: a result, or null
DistrictResult(resp, districtNum) ==
    IF resp[districtNum] = "ok"
    THEN [isNull |-> FALSE, feature |-> DistrictFeature(districtNum),
          district |-> ProcessedDistrict(districtNum)]
    ELSE [isNull |-> TRUE]

ValidResult(result) ==
    ~result.isNull /\ validateCongressionalDistrict(result.feature)

\* A try block that stores the feature of every index, valid or not
DistrictsTryKeepingEveryFeature(resp) ==
    LET districtResults == [n \in DistrictNumbers |-> DistrictResult(resp, n)]
        validResults == SelectSeq(districtResults, ValidResult)
    IN  IF Len(validResults) = 0
        THEN [ok |-> FALSE, error |-> Thrown("Error", "No valid districts")]
        ELSE [ok |-> TRUE,
              features  |-> [n \in DistrictNumbers |-> DistrictFeature(n)],
              districts |-> [i \in 1..Len(validResults) |-> validResults[i].district]]

\* try block of loadCongressionalDistricts
DistrictsTry(resp) ==
    LET districtResults == [n \in DistrictNumbers |-> DistrictResult(resp, n)]
        validResults == SelectSeq(districtResults, ValidResult)
    IN  IF Len(validResults) = 0
        THEN [ok |-> FALSE, error |-> Thrown("Error", "No valid districts")]
        ELSE [ok |-> TRUE,
              features  |-> [i \in 1..Len(validResults) |-> validResults[i].feature],
              districts |-> [i \in 1..Len(validResults) |-> validResults[i].district]]

\* The try block's outcome for every response (evaluated once)
DistrictsOutcome == [resp \in ZoneResponses |-> DistrictsTry(resp)]

(***************************************************************************)
(* Bags of attempts in flight and of timers, as functions key -> count.    *)
(***************************************************************************)
Counts == 0..MaxSiteFaults
TimerCounts == 0..(MAX_RETRY_ATTEMPTS - 1)
Delays == {d * BaseDelayMs : d \in 0..Pow2(MAX_RETRY_ATTEMPTS - 1)}
TimerKeys == [count : TimerCounts, remaining : Delays]

RECURSIVE BagSizeOver(_, _)
BagSizeOver(bag, keys) ==
    IF keys = {} THEN 0
    ELSE LET k == CHOOSE x \in keys : TRUE
         IN  bag[k] + BagSizeOver(bag, keys \ {k})

BagSize(bag) == BagSizeOver(bag, DOMAIN bag)
BagAdd(bag, k) == [bag EXCEPT ![k] = @ + 1]
BagRemove(bag, k) == [bag EXCEPT ![k] = @ - 1]
EmptyBag(keys) == [k \in keys |-> 0]

\* BaseDelayMs of time passes for every timer
TimersAfterTick(timers) ==
    [k \in TimerKeys |->
        (IF k.remaining + BaseDelayMs \in Delays
         THEN timers[[k EXCEPT !.remaining = @ + BaseDelayMs]] ELSE 0)
        + (IF k.remaining = 0 THEN timers[k] ELSE 0)]

Min(a, b) == IF a < b THEN a ELSE b

(***************************************************************************)
(* State of the hook.                                                      *)
(***************************************************************************)
VARIABLES
    headStartPrograms,        \* useState: the site collection
    congressionalDistricts,   \* useState: the zone collection
    rawDistrictFeatures,      \* useState: the zone features
    isLoadingPrograms, isLoadingDistricts, isLoadingCongressData,
    programsError, districtsError, congressDataError,
    programsRetryCount, districtsRetryCount, congressDataRetryCount,
    congressDataLoadedRef,    \* useRef: enrichment already ran
    congressApiKey,           \* what getCongressApiKey() returns
    rendered,                 \* the state values the last render read
    loadCongressionalDataClosure, \* what the memoized loadCongressionalData captured
    mountEffect,              \* changed dependencies of the "load all data" effect, not yet run
    congressEffect,           \* changed dependencies of the "load congressional data" effect
    programsInFlight, districtsInFlight, congressInFlight,
                              \* attempts awaiting their fetch, by captured retry count
    programsTimers, districtsTimers,
                              \* setTimeout callbacks pending, by captured count and time left
    programsSinceFail, districtsSinceFail,
                              \* ms since the error was set, up to MaxDelayMs (observation only)
    faults,                   \* failing responses delivered so far (bounded by MaxFaults)
    members,                  \* the member list of the enrichment response being merged
    layerVisibility,          \* useState: which map layers are shown
    searchTerm, isSearching,  \* useSearch: useState
    allPrograms, allDistricts, searchOptions,
                              \* useSearch: its arguments
    argument, returned        \* a call of an exported function: what it is given and
                              \* what it returned

siteVars == <<headStartPrograms, isLoadingPrograms, programsError, programsRetryCount,
              programsInFlight, programsTimers, programsSinceFail>>
zoneVars == <<congressionalDistricts, rawDistrictFeatures, isLoadingDistricts,
              districtsError, districtsRetryCount, districtsInFlight, districtsTimers,
              districtsSinceFail>>
congressVars == <<isLoadingCongressData, congressDataError, congressDataRetryCount,
                  congressDataLoadedRef, congressInFlight>>
reactVars == <<rendered, loadCongressionalDataClosure, mountEffect, congressEffect>>
searchVars == <<searchTerm, isSearching, allPrograms, allDistricts, searchOptions>>
\* What no step of the loaders touches
callVars == <<argument, returned>>
outsideVars == <<congressApiKey, members, layerVisibility, searchVars, callVars>>
envVars == <<outsideVars, faults>>
vars == <<siteVars, zoneVars, congressVars, reactVars, envVars>>

\* Attempts of a source awaiting their fetch
ProgramsAttempts == BagSize(programsInFlight)
DistrictsAttempts == BagSize(districtsInFlight)
CongressAttempts == BagSize(congressInFlight)

\* The values a render reads that its closures and effect dependencies use
CurrentView ==
    [programsError          |-> programsError,
     districtsError         |-> districtsError,
     congressDataError      |-> congressDataError,
     programsRetryCount     |-> programsRetryCount,
     districtsRetryCount    |-> districtsRetryCount,
     congressDataRetryCount |-> congressDataRetryCount,
     districtsLength        |-> Len(congressionalDistricts),
     isLoadingDistricts     |-> isLoadingDistricts]

\* The hook after its first render, with getCongressApiKey() returning apiKey
InitHook(apiKey) ==
    /\ headStartPrograms = <<>>
    /\ congressionalDistricts = <<>>
    /\ rawDistrictFeatures = <<>>
    /\ isLoadingPrograms = FALSE
    /\ isLoadingDistricts = FALSE
    /\ isLoadingCongressData = FALSE
    /\ programsError = Null
    /\ districtsError = Null
    /\ congressDataError = Null
    /\ programsRetryCount = 0
    /\ districtsRetryCount = 0
    /\ congressDataRetryCount = 0
    /\ congressDataLoadedRef = FALSE
    /\ congressApiKey = apiKey
    /\ members = <<>>
    /\ layerVisibility = [majorCities            |-> FALSE,
                          congressionalDistricts |-> FALSE,
                          districtBoundaries     |-> FALSE,
                          counties               |-> FALSE,
                          headStartPrograms      |-> TRUE]
    /\ rendered = CurrentView
    /\ loadCongressionalDataClosure = [districtsLength |-> 0, congressDataRetryCount |-> 0]
    /\ mountEffect = {"mount"}
    /\ congressEffect = {"mount"}
    /\ programsInFlight = EmptyBag(Counts)
    /\ districtsInFlight = EmptyBag(Counts)
    /\ congressInFlight = EmptyBag(Counts)
    /\ programsTimers = EmptyBag(TimerKeys)
    /\ districtsTimers = EmptyBag(TimerKeys)
    /\ programsSinceFail = MaxDelayMs
    /\ districtsSinceFail = MaxDelayMs
    /\ faults = 0

\* useSearch: the options a caller gets when it passes none
DefaultSearchOptions ==
    [includePrograms |-> TRUE, includeDistricts |-> TRUE, minSearchLength |-> 2]

\* useSearch after its first render, called with (programs, districts, options);
\* options are the caller's merged over the defaults
InitSearch(programs, districts, options) ==
    /\ searchTerm = <<>>
    /\ isSearching = FALSE
    /\ allPrograms = programs
    /\ allDistricts = districts
    /\ searchOptions = options

\* No exported function is being called
NoCall == argument = <<>> /\ returned = <<>>

\* The deployment with an enrichment API key configured
Init == InitHook("key") /\ InitSearch(<<>>, <<>>, DefaultSearchOptions) /\ NoCall

(***************************************************************************)
(* The synchronous start of each loader, called through a closure that     *)
(* captured the retry count `count`.                                       *)
(***************************************************************************)
\* loadHeadStartPrograms up to its first await
StartPrograms(count) ==
    /\ ProgramsAttempts < MaxInFlight
    /\ isLoadingPrograms' = TRUE
    /\ programsError' = Null
    /\ programsInFlight' = BagAdd(programsInFlight, count)
    /\ programsSinceFail' = MaxDelayMs

\* loadCongressionalDistricts up to its first await
StartDistricts(count) ==
    /\ DistrictsAttempts < MaxInFlight
    /\ isLoadingDistricts' = TRUE
    /\ districtsError' = Null
    /\ districtsInFlight' = BagAdd(districtsInFlight, count)
    /\ districtsSinceFail' = MaxDelayMs

\* A loadCongressionalData that looks neither at the zones it captured nor at the key
LoadCongressionalDataUnguarded(closure, loadedRef) ==
    IF loadedRef
    THEN UNCHANGED <<isLoadingCongressData, congressDataError, congressInFlight>>
    ELSE /\ CongressAttempts < MaxInFlight
         /\ isLoadingCongressData' = TRUE
         /\ congressDataError' = Null
         /\ congressInFlight' = BagAdd(congressInFlight, closure.congressDataRetryCount)

\* loadCongressionalData up to its first await; loadedRef is congressDataLoadedRef.current
LoadCongressionalData(closure, loadedRef) ==
    IF closure.districtsLength = 0
    THEN UNCHANGED <<isLoadingCongressData, congressDataError, congressInFlight>>
    ELSE IF loadedRef
    THEN UNCHANGED <<isLoadingCongressData, congressDataError, congressInFlight>>
    ELSE IF ~Truthy(congressApiKey)
    THEN UNCHANGED <<isLoadingCongressData, congressDataError, congressInFlight>>
    ELSE /\ CongressAttempts < MaxInFlight
         /\ isLoadingCongressData' = TRUE
         /\ congressDataError' = Null
         /\ congressInFlight' = BagAdd(congressInFlight, closure.congressDataRetryCount)

(***************************************************************************)
(* Continuations of the loaders: the fetch of an attempt settles.          *)
(***************************************************************************)
\* Passive effects of the last commit are flushed before any other callback runs
EffectsPending == mountEffect # {} \/ congressEffect # {}

\* try block of loadHeadStartPrograms ran to its end, then finally
ProgramsLoaded(count, resp) ==
    /\ ~EffectsPending
    /\ resp \notin CommonSiteResponses => faults < RareUntilFaults
    /\ programsInFlight[count] > 0
    /\ ProgramsOutcome[resp].ok
    /\ headStartPrograms' = ProgramsOutcome[resp].programs
    /\ programsRetryCount' = 0
    /\ isLoadingPrograms' = FALSE
    /\ programsInFlight' = BagRemove(programsInFlight, count)
    /\ UNCHANGED <<programsError, programsTimers, programsSinceFail>>
    /\ UNCHANGED <<zoneVars, congressVars, reactVars, envVars>>

\* The timers after the catch block of a closure that captured `count` ran
TimersAfterFailure(timers, count) ==
    IF count < MAX_RETRY_ATTEMPTS
    THEN BagAdd(timers, [count |-> count, remaining |-> BackoffDelay(count)])
    ELSE timers

\* A catch block that also drops the sites loaded before
ProgramsFailedDroppingSites(count, resp) ==
    /\ ~EffectsPending
    /\ programsInFlight[count] > 0
    /\ ~ProgramsOutcome[resp].ok
    /\ faults < MaxFaults
    /\ faults' = faults + 1
    /\ count < MAX_RETRY_ATTEMPTS => BagSize(programsTimers) < MaxTimers
    /\ programsError' = ErrorMessage(ProgramsOutcome[resp].error)
    /\ programsRetryCount' = programsRetryCount + 1
    /\ programsTimers' = TimersAfterFailure(programsTimers, count)
    /\ isLoadingPrograms' = FALSE
    /\ programsInFlight' = BagRemove(programsInFlight, count)
    /\ programsSinceFail' = 0
    /\ headStartPrograms' = <<>>
    /\ UNCHANGED <<zoneVars, congressVars, reactVars, outsideVars>>

\* try block of loadHeadStartPrograms threw: catch, then finally; maxFaults is the
\* bound on the failing responses of the run
ProgramsFailedWithin(count, resp, maxFaults) ==
    /\ ~EffectsPending
    /\ resp \notin CommonSiteResponses => faults < RareUntilFaults
    /\ programsInFlight[count] > 0
    /\ ~ProgramsOutcome[resp].ok
    /\ faults < maxFaults
    /\ faults' = faults + 1
    /\ count < MAX_RETRY_ATTEMPTS => BagSize(programsTimers) < MaxTimers
    /\ programsError' = ErrorMessage(ProgramsOutcome[resp].error)
    /\ programsRetryCount' = programsRetryCount + 1
    /\ programsTimers' = TimersAfterFailure(programsTimers, count)
    /\ isLoadingPrograms' = FALSE
    /\ programsInFlight' = BagRemove(programsInFlight, count)
    /\ programsSinceFail' = 0
    /\ UNCHANGED headStartPrograms
    /\ UNCHANGED <<zoneVars, congressVars, reactVars, outsideVars>>

ProgramsFailed(count, resp) == ProgramsFailedWithin(count, resp, MaxFaults)

\* try block of loadCongressionalDistricts ran to its end, then finally
DistrictsLoaded(count, resp) ==
    /\ ~EffectsPending
    /\ resp \notin CommonZoneResponses => faults < RareUntilFaults
    /\ districtsInFlight[count] > 0
    /\ DistrictsOutcome[resp].ok
    /\ rawDistrictFeatures' = DistrictsOutcome[resp].features
    /\ congressionalDistricts' = DistrictsOutcome[resp].districts
    /\ districtsRetryCount' = 0
    /\ isLoadingDistricts' = FALSE
    /\ districtsInFlight' = BagRemove(districtsInFlight, count)
    /\ UNCHANGED <<districtsError, districtsTimers, districtsSinceFail>>
    /\ UNCHANGED <<siteVars, congressVars, reactVars, envVars>>

\* try block of loadCongressionalDistricts threw: catch, then finally
DistrictsFailed(count, resp) ==
    /\ ~EffectsPending
    /\ resp \notin CommonZoneResponses => faults < RareUntilFaults
    /\ districtsInFlight[count] > 0
    /\ ~DistrictsOutcome[resp].ok
    /\ faults < MaxFaults
    /\ faults' = faults + 1
    /\ count < MAX_RETRY_ATTEMPTS => BagSize(districtsTimers) < MaxTimers
    /\ districtsError' = ErrorMessage(DistrictsOutcome[resp].error)
    /\ districtsRetryCount' = districtsRetryCount + 1
    /\ districtsTimers' = TimersAfterFailure(districtsTimers, count)
    /\ isLoadingDistricts' = FALSE
    /\ districtsInFlight' = BagRemove(districtsInFlight, count)
    /\ districtsSinceFail' = 0
    /\ UNCHANGED <<congressionalDistricts, rawDistrictFeatures>>
    /\ UNCHANGED <<siteVars, congressVars, reactVars, outsideVars>>

(***************************************************************************)
(* setTimeout callbacks: the closure that failed calls itself again.       *)
(***************************************************************************)
ProgramsTimer(count) ==
    /\ ~EffectsPending
    /\ programsTimers[[count |-> count, remaining |-> 0]] > 0
    /\ programsTimers' = BagRemove(programsTimers, [count |-> count, remaining |-> 0])
    /\ StartPrograms(count)
    /\ UNCHANGED <<headStartPrograms, programsRetryCount>>
    /\ UNCHANGED <<zoneVars, congressVars, reactVars, envVars>>

DistrictsTimer(count) ==
    /\ ~EffectsPending
    /\ districtsTimers[[count |-> count, remaining |-> 0]] > 0
    /\ districtsTimers' = BagRemove(districtsTimers, [count |-> count, remaining |-> 0])
    /\ StartDistricts(count)
    /\ UNCHANGED <<congressionalDistricts, rawDistrictFeatures, districtsRetryCount>>
    /\ UNCHANGED <<siteVars, congressVars, reactVars, envVars>>

\* BaseDelayMs of time passes
Tick ==
    /\ ~EffectsPending
    /\ rendered = CurrentView
    /\ programsTimers' = TimersAfterTick(programsTimers)
    /\ districtsTimers' = TimersAfterTick(districtsTimers)
    /\ programsSinceFail' = Min(programsSinceFail + BaseDelayMs, MaxDelayMs)
    /\ districtsSinceFail' = Min(districtsSinceFail + BaseDelayMs, MaxDelayMs)
    /\ <<programsTimers, districtsTimers, programsSinceFail, districtsSinceFail>>'
         # <<programsTimers, districtsTimers, programsSinceFail, districtsSinceFail>>
    /\ UNCHANGED <<headStartPrograms, isLoadingPrograms, programsError, programsRetryCount,
                   programsInFlight>>
    /\ UNCHANGED <<congressionalDistricts, rawDistrictFeatures, isLoadingDistricts,
                   districtsError, districtsRetryCount, districtsInFlight>>
    /\ UNCHANGED <<congressVars, reactVars, envVars>>

(***************************************************************************)
(* React: render and effects.                                              *)
(***************************************************************************)
\* A callback memoized on everything it reads: every render gives a fresh closure
CongressClosureOfThisRender ==
    [districtsLength |-> Len(congressionalDistricts),
     congressDataRetryCount |-> congressDataRetryCount]

\* useCallback(..., [congressDataRetryCount]): a new closure only when the dependency changed
CongressClosureAfterRender ==
    IF congressDataRetryCount # rendered.congressDataRetryCount
    THEN [districtsLength |-> Len(congressionalDistricts),
          congressDataRetryCount |-> congressDataRetryCount]
    ELSE loadCongressionalDataClosure

\* Dependencies [loadHeadStartPrograms, loadCongressionalDistricts] that changed identity
MountEffectChanged ==
    {d \in {"loadHeadStartPrograms", "loadCongressionalDistricts"} :
        \/ d = "loadHeadStartPrograms" /\ programsRetryCount # rendered.programsRetryCount
        \/ d = "loadCongressionalDistricts"
             /\ districtsRetryCount # rendered.districtsRetryCount}

\* Dependencies [congressionalDistricts.length, isLoadingDistricts, loadCongressionalData]
CongressEffectChanged ==
    {d \in {"congressionalDistricts.length", "isLoadingDistricts", "loadCongressionalData"} :
        \/ d = "congressionalDistricts.length"
             /\ Len(congressionalDistricts) # rendered.districtsLength
        \/ d = "isLoadingDistricts" /\ isLoadingDistricts # rendered.isLoadingDistricts
        \/ d = "loadCongressionalData"
             /\ congressDataRetryCount # rendered.congressDataRetryCount}

\* The hook re-renders with the batched state; pending effects are flushed first.
\* A render whose mount effect would exceed MaxInFlight waits for a fetch to settle.
Render ==
    /\ ~EffectsPending
    /\ rendered # CurrentView
    /\ MountEffectChanged # {}
         => (ProgramsAttempts < MaxInFlight /\ DistrictsAttempts < MaxInFlight)
    /\ rendered' = CurrentView
    /\ loadCongressionalDataClosure' = CongressClosureAfterRender
    /\ mountEffect' = MountEffectChanged
    /\ congressEffect' = CongressEffectChanged
    /\ UNCHANGED <<siteVars, zoneVars, congressVars, envVars>>

\* useEffect "load all data when component mounts"
MountEffectBody ==
    /\ StartPrograms(rendered.programsRetryCount)
    /\ StartDistricts(rendered.districtsRetryCount)

\* useEffect "load congressional data after districts are loaded"
CongressEffectBody ==
    IF rendered.districtsLength > 0 /\ ~rendered.isLoadingDistricts /\ ~congressDataLoadedRef
    THEN LoadCongressionalData(loadCongressionalDataClosure, congressDataLoadedRef)
    ELSE UNCHANGED <<isLoadingCongressData, congressDataError, congressInFlight>>

\* The effects the last commit scheduled run, in the order of their declaration
FlushEffects ==
    /\ EffectsPending
    /\ IF mountEffect # {}
       THEN MountEffectBody
       ELSE UNCHANGED <<isLoadingPrograms, programsError, programsInFlight,
                        programsSinceFail, isLoadingDistricts, districtsError,
                        districtsInFlight, districtsSinceFail>>
    /\ IF congressEffect # {}
       THEN CongressEffectBody
       ELSE UNCHANGED <<isLoadingCongressData, congressDataError, congressInFlight>>
    /\ mountEffect' = {}
    /\ congressEffect' = {}
    /\ UNCHANGED <<headStartPrograms, programsRetryCount, programsTimers>>
    /\ UNCHANGED <<congressionalDistricts, rawDistrictFeatures, districtsRetryCount,
                   districtsTimers>>
    /\ UNCHANGED <<congressDataRetryCount, congressDataLoadedRef>>
    /\ UNCHANGED <<rendered, loadCongressionalDataClosure, envVars>>

\* A hasErrors that forgets the zones
hasErrorsOfSitesAndEnrichment ==
    Truthy(rendered.programsError) \/ Truthy(rendered.congressDataError)

\* hasErrors as the last render returned it
hasErrors ==
    \/ Truthy(rendered.programsError)
    \/ Truthy(rendered.districtsError)
    \/ Truthy(rendered.congressDataError)

(***************************************************************************)
(* retryLoading of the last render, called by the consumer.                *)
(***************************************************************************)
\* if (programsError) { setProgramsRetryCount(0); loadHeadStartPrograms(); }
RetryPrograms ==
    IF rendered.programsError # Null
    THEN /\ programsRetryCount' = 0
         /\ StartPrograms(rendered.programsRetryCount)
    ELSE UNCHANGED <<programsRetryCount, isLoadingPrograms, programsError,
                     programsInFlight, programsSinceFail>>

\* if (districtsError) { setDistrictsRetryCount(0); loadCongressionalDistricts(); }
RetryDistricts ==
    IF rendered.districtsError # Null
    THEN /\ districtsRetryCount' = 0
         /\ StartDistricts(rendered.districtsRetryCount)
    ELSE UNCHANGED <<districtsRetryCount, isLoadingDistricts, districtsError,
                     districtsInFlight, districtsSinceFail>>

\* if (congressDataError) { ...; congressDataLoadedRef.current = false; ... }
RetryCongressData ==
    IF rendered.congressDataError # Null
    THEN /\ congressDataRetryCount' = 0
         /\ congressDataLoadedRef' = FALSE
         /\ LoadCongressionalData(loadCongressionalDataClosure, FALSE)
    ELSE UNCHANGED congressVars

RetryLoading ==
    /\ ~EffectsPending
    /\ \/ rendered.programsError # Null
       \/ rendered.districtsError # Null
       \/ rendered.congressDataError # Null
    /\ RetryPrograms
    /\ RetryDistricts
    /\ RetryCongressData
    /\ UNCHANGED <<headStartPrograms, programsTimers>>
    /\ UNCHANGED <<congressionalDistricts, rawDistrictFeatures, districtsTimers>>
    /\ UNCHANGED <<reactVars, envVars>>

Next ==
    \/ \E count \in Counts, resp \in SiteResponses : ProgramsLoaded(count, resp)
    \/ \E count \in Counts, resp \in SiteResponses : ProgramsFailed(count, resp)
    \/ \E count \in Counts, resp \in ZoneResponses : DistrictsLoaded(count, resp)
    \/ \E count \in Counts, resp \in ZoneResponses : DistrictsFailed(count, resp)
    \/ \E count \in TimerCounts : ProgramsTimer(count)
    \/ \E count \in TimerCounts : DistrictsTimer(count)
    \/ Tick
    \/ Render
    \/ FlushEffects
    \/ RetryLoading

Spec == Init /\ [][Next]_vars

\* The deployment with no enrichment API key configured
NoKeyInit == InitHook(Undefined) /\ InitSearch(<<>>, <<>>, DefaultSearchOptions) /\ NoCall

NoKeySpec == NoKeyInit /\ [][Next]_vars

\* The deployment whose site file cannot be fetched while the zones load: every site
\* attempt fails, every zone batch loads, nobody calls retryLoading
SitesDownNext ==
    \/ \E count \in Counts :
          ProgramsFailedWithin(count, [kind |-> "failedToFetch"], MaxSiteFaults)
    \/ \E count \in Counts : DistrictsLoaded(count, Missing14)
    \/ \E count \in TimerCounts : ProgramsTimer(count)
    \/ Tick
    \/ Render
    \/ FlushEffects

SitesDownSpec == Init /\ [][SitesDownNext]_vars

(***************************************************************************)
(* The layer switches of useMapData, called by the consumer while the hook *)
(* loads its data.  A layer switch re-renders the hook, but no dependency  *)
(* of an effect or of a loader changes, so the render starts nothing.      *)
(***************************************************************************)
Layers == {"majorCities", "congressionalDistricts", "districtBoundaries", "counties",
           "headStartPrograms"}

\* A toggleLayer that builds the flags anew and forgets the other layers
toggleLayerForgettingOthers(layer) ==
    /\ ~EffectsPending
    /\ layerVisibility' = [other \in Layers |->
                              IF other = layer THEN ~layerVisibility[layer] ELSE FALSE]
    /\ UNCHANGED <<siteVars, zoneVars, congressVars, reactVars, faults>>
    /\ UNCHANGED <<congressApiKey, members, searchVars, callVars>>

toggleLayer(layer) ==
    /\ ~EffectsPending
    /\ layerVisibility' = [layerVisibility EXCEPT ![layer] = ~layerVisibility[layer]]
    /\ UNCHANGED <<siteVars, zoneVars, congressVars, reactVars, faults>>
    /\ UNCHANGED <<congressApiKey, members, searchVars, callVars>>

setLayerVisibilityState(layer, visible) ==
    /\ ~EffectsPending
    /\ layerVisibility' = [layerVisibility EXCEPT ![layer] = visible]
    /\ UNCHANGED <<siteVars, zoneVars, congressVars, reactVars, faults>>
    /\ UNCHANGED <<congressApiKey, members, searchVars, callVars>>

\* A step of the loaders, of which at most MaxLayerFaults deliver a failing response
LoaderStep == Next /\ (faults' # faults => faults < MaxLayerFaults)

LayerNext ==
    \/ LoaderStep
    \/ \E layer \in Layers : toggleLayer(layer)
    \/ \E layer \in Layers, visible \in BOOLEAN : setLayerVisibilityState(layer, visible)

LayerSpec == Init /\ [][LayerNext]_vars

(***************************************************************************)
(* The enrichment merge: the continuation of loadCongressionalData after   *)
(* its fetch, as a function of the zones stored and the member list of the *)
(* response.  Its inputs are drawn from bounded sets.                      *)
(***************************************************************************)
Digits == <<"0", "1", "2", "3", "4", "5", "6", "7", "8", "9">>

IsDigit(c) == \E d \in 1..Len(Digits) : Digits[d] = c

DigitValue(c) == (CHOOSE d \in 1..Len(Digits) : Digits[d] = c) - 1

\* The longest prefix of s made of decimal digits
RECURSIVE DigitPrefix(_)
DigitPrefix(s) ==
    IF s # <<>> /\ IsDigit(Head(s)) THEN <<Head(s)>> \o DigitPrefix(Tail(s)) ELSE <<>>

RECURSIVE DecimalValue(_)
DecimalValue(ds) ==
    IF ds = <<>> THEN 0
    ELSE 10 * DecimalValue(SubSeq(ds, 1, Len(ds) - 1)) + DigitValue(ds[Len(ds)])

\* parseInt(s, 10): leading white space and one sign are skipped, the digits that
\* follow are read up to the first other character; NaN when there is no digit
ParseInt(s) ==
    LET t == TrimStart(s)
        signed == t # <<>> /\ Head(t) \in {"+", "-"}
        ds == DigitPrefix(IF signed THEN Tail(t) ELSE t)
    IN  IF ds = <<>> THEN NotANumber
        ELSE IF signed /\ Head(t) = "-" THEN Num(0 - DecimalValue(ds))
        ELSE Num(DecimalValue(ds))

\* representative.depiction?.imageUrl
ImageUrl(representative) ==
    IF "depiction" \in DOMAIN representative
       /\ "imageUrl" \in DOMAIN representative.depiction
    THEN representative.depiction.imageUrl ELSE Undefined

\* representative.contactInformation?.[field]
ContactInformation(representative, field) ==
    IF "contactInformation" \in DOMAIN representative
       /\ field \in DOMAIN representative.contactInformation
    THEN representative.contactInformation[field] ELSE Undefined

\* representative.terms?.[0]?.current?.committees?.map(committee => committee.name) || []
CommitteeNames(representative) ==
    IF /\ "terms" \in DOMAIN representative
       /\ Len(representative.terms) > 0
       /\ "current" \in DOMAIN representative.terms[1]
       /\ "committees" \in DOMAIN representative.terms[1].current
    THEN [i \in 1..Len(representative.terms[1].current.committees) |->
             representative.terms[1].current.committees[i].name]
    ELSE <<>>

\* members.find(member => parseInt(member.district, 10) === district.number)
MatchingMembers(district, memberList) ==
    SelectSeq(memberList, LAMBDA member : ParseInt(member.district) = Num(district.number))

\* A merge that adds the committees to those the zone already has
MergeDistrictAddingCommittees(district, memberList) ==
    LET found == MatchingMembers(district, memberList)
    IN  IF found = <<>> THEN district
        ELSE [representative |-> found[1].name,
              party          |-> found[1].party,
              photoUrl       |-> ImageUrl(found[1]),
              contact        |-> [phone   |-> ContactInformation(found[1], "phoneNumber"),
                                  email   |-> ContactInformation(found[1], "email"),
                                  website |-> ContactInformation(found[1], "websiteUrl"),
                                  office  |-> ContactInformation(found[1], "officeAddress")],
              committees     |-> (IF "committees" \in DOMAIN district
                                  THEN district.committees ELSE <<>>)
                                 \o CommitteeNames(found[1])]
             @@ district

\* A merge that takes the last member that matches
MergeDistrictLastMatch(district, memberList) ==
    LET found == MatchingMembers(district, memberList)
    IN  IF found = <<>> THEN district
        ELSE [representative |-> found[Len(found)].name,
              party          |-> found[Len(found)].party,
              photoUrl       |-> ImageUrl(found[Len(found)]),
              contact        |->
                  [phone   |-> ContactInformation(found[Len(found)], "phoneNumber"),
                   email   |-> ContactInformation(found[Len(found)], "email"),
                   website |-> ContactInformation(found[Len(found)], "websiteUrl"),
                   office  |-> ContactInformation(found[Len(found)], "officeAddress")],
              committees     |-> CommitteeNames(found[Len(found)])]
             @@ district

\* The callback of prevDistricts.map: the spread of the zone with five fields taken
\* from the first member that matches
MergeDistrict(district, memberList) ==
    LET found == MatchingMembers(district, memberList)
    IN  IF found = <<>> THEN district
        ELSE [representative |-> found[1].name,
              party          |-> found[1].party,
              photoUrl       |-> ImageUrl(found[1]),
              contact        |-> [phone   |-> ContactInformation(found[1], "phoneNumber"),
                                  email   |-> ContactInformation(found[1], "email"),
                                  website |-> ContactInformation(found[1], "websiteUrl"),
                                  office  |-> ContactInformation(found[1], "officeAddress")],
              committees     |-> CommitteeNames(found[1])]
             @@ district

\* The updater passed to setCongressionalDistricts
MergeMembers(prevDistricts, memberList) ==
    [i \in 1..Len(prevDistricts) |-> MergeDistrict(prevDistricts[i], memberList)]

\* Member records of a response
MemberDan ==
    [name |-> "Dan", party |-> "R", district |-> <<"2">>,
     depiction |-> [imageUrl |-> "dan.jpg"],
     contactInformation |-> [phoneNumber |-> "555-0102", email |-> "dan@house.gov",
                             websiteUrl |-> "dan.house.gov", officeAddress |-> "1 Main"],
     terms |-> << [current |-> [committees |->
                      << [name |-> "Budget", systemCode |-> "hsbu00"] >>]] >>]
MemberAnn ==
    [name |-> "Ann", party |-> "D", district |-> <<"0", "2">>]
MemberLee ==
    [name |-> "Lee", party |-> "D", district |-> <<" ", "5", "t", "h">>,
     contactInformation |-> [phoneNumber |-> "555-0105"],
     terms |-> << [state |-> "TX"] >>]
MemberKay ==
    [name |-> "Kay", party |-> "R", district |-> <<"1", "4">>,
     depiction |-> [attribution |-> "house.gov"]]
MemberAtLarge ==
    [name |-> "Max", party |-> "I", district |-> <<"A", "t", "-", "2">>]

Members == {MemberDan, MemberAnn, MemberLee, MemberKay, MemberAtLarge}

\* Member lists of up to MaxMembers records
MemberLists ==
    UNION {[1..n -> Members] : n \in 0..MaxMembers}

\* Zone collections a zone load can have stored
ZoneLists ==
    {<<ProcessedDistrict(2), ProcessedDistrict(5)>>,
     <<ProcessedDistrict(14), ProcessedDistrict(5), ProcessedDistrict(2)>>,
     <<ProcessedDistrict(14)>>}

\* Two attempts of loadCongressionalData await their fetch, which answers both with
\* the same member list
MergeInit ==
    /\ \E memberList \in MemberLists, zones \in ZoneLists :
          /\ members = memberList
          /\ congressionalDistricts = zones
    /\ rawDistrictFeatures = <<>>
    /\ headStartPrograms = <<>>
    /\ isLoadingPrograms = FALSE
    /\ isLoadingDistricts = FALSE
    /\ isLoadingCongressData = TRUE
    /\ programsError = Null
    /\ districtsError = Null
    /\ congressDataError = Null
    /\ programsRetryCount = 0
    /\ districtsRetryCount = 0
    /\ congressDataRetryCount = 0
    /\ congressDataLoadedRef = FALSE
    /\ congressApiKey = "key"
    /\ layerVisibility = [majorCities            |-> FALSE,
                          congressionalDistricts |-> FALSE,
                          districtBoundaries     |-> FALSE,
                          counties               |-> FALSE,
                          headStartPrograms      |-> TRUE]
    /\ rendered = CurrentView
    /\ loadCongressionalDataClosure =
          [districtsLength |-> Len(congressionalDistricts), congressDataRetryCount |-> 0]
    /\ mountEffect = {}
    /\ congressEffect = {}
    /\ programsInFlight = EmptyBag(Counts)
    /\ districtsInFlight = EmptyBag(Counts)
    /\ congressInFlight = [EmptyBag(Counts) EXCEPT ![0] = 2]
    /\ programsTimers = EmptyBag(TimerKeys)
    /\ districtsTimers = EmptyBag(TimerKeys)
    /\ programsSinceFail = MaxDelayMs
    /\ districtsSinceFail = MaxDelayMs
    /\ faults = 0
    /\ InitSearch(<<>>, <<>>, DefaultSearchOptions)
    /\ NoCall

\* try block of loadCongressionalData ran to its end with the member list, then finally
CongressLoaded(count) ==
    /\ congressInFlight[count] > 0
    /\ congressionalDistricts' = MergeMembers(congressionalDistricts, members)
    /\ congressDataLoadedRef' = TRUE
    /\ congressDataRetryCount' = 0
    /\ isLoadingCongressData' = FALSE
    /\ congressInFlight' = BagRemove(congressInFlight, count)
    /\ UNCHANGED <<congressDataError, rawDistrictFeatures, isLoadingDistricts,
                   districtsError, districtsRetryCount, districtsInFlight,
                   districtsTimers, districtsSinceFail>>
    /\ UNCHANGED <<siteVars, reactVars, envVars>>

MergeNext == \E count \in Counts : CongressLoaded(count)

MergeSpec == MergeInit /\ [][MergeNext]_vars

(***************************************************************************)
(* useSearch: the search hook over the sites and the zone features it is   *)
(* given.  Its results are memoized on everything they read, so they are   *)
(* functions of the search term, the arguments and the options.            *)
(***************************************************************************)
UpperCase == <<"A", "B", "C", "D", "E", "F", "G", "H", "I", "J", "K", "L", "M",
               "N", "O", "P", "Q", "R", "S", "T", "U", "V", "W", "X", "Y", "Z">>
LowerCase == <<"a", "b", "c", "d", "e", "f", "g", "h", "i", "j", "k", "l", "m",
               "n", "o", "p", "q", "r", "s", "t", "u", "v", "w", "x", "y", "z">>

\* String.prototype.toLowerCase
ToLowerCase(str) ==
    [i \in 1..Len(str) |->
        IF \E k \in 1..Len(UpperCase) : UpperCase[k] = str[i]
        THEN LowerCase[CHOOSE k \in 1..Len(UpperCase) : UpperCase[k] = str[i]]
        ELSE str[i]]

\* String.prototype.includes
Includes(str, term) ==
    \E start \in 1..(Len(str) + 1) :
        /\ start + Len(term) - 1 <= Len(str)
        /\ SubSeq(str, start, start + Len(term) - 1) = term

\* Number.prototype.toString of an integer that is not negative
RECURSIVE NumberToString(_)
NumberToString(n) ==
    IF n < 10 THEN <<Digits[n + 1]>>
    ELSE NumberToString(n \div 10) \o <<Digits[(n % 10) + 1]>>

\* A filter of the sites that does not trim the term
filteredProgramsOfUntrimmed(term) ==
    IF term = <<>> \/ ~searchOptions.includePrograms
       \/ Len(term) < searchOptions.minSearchLength
    THEN allPrograms
    ELSE SelectSeq(allPrograms, LAMBDA program :
            \/ Includes(ToLowerCase(program.name), ToLowerCase(term))
            \/ Includes(ToLowerCase(program.address), ToLowerCase(term))
            \/ /\ "grantee" \in DOMAIN program
               /\ program.grantee # <<>>
               /\ Includes(ToLowerCase(program.grantee), ToLowerCase(term)))

\* filteredPrograms when the search term is `term`
filteredProgramsOf(term) ==
    IF term = <<>> \/ ~searchOptions.includePrograms
       \/ Len(term) < searchOptions.minSearchLength
    THEN allPrograms
    ELSE SelectSeq(allPrograms, LAMBDA program :
            \/ Includes(ToLowerCase(program.name), Trim(ToLowerCase(term)))
            \/ Includes(ToLowerCase(program.address), Trim(ToLowerCase(term)))
            \/ /\ "grantee" \in DOMAIN program
               /\ program.grantee # <<>>
               /\ Includes(ToLowerCase(program.grantee), Trim(ToLowerCase(term))))

\* filteredDistricts when the search term is `term`
filteredDistrictsOf(term) ==
    IF term = <<>> \/ ~searchOptions.includeDistricts
       \/ Len(term) < searchOptions.minSearchLength
    THEN allDistricts
    ELSE SelectSeq(allDistricts, LAMBDA district :
            \/ Includes(ToLowerCase(district.properties.name), Trim(ToLowerCase(term)))
            \/ Includes(ToLowerCase(district.properties.representative),
                        Trim(ToLowerCase(term)))
            \/ Includes(ToLowerCase(district.properties.district), Trim(ToLowerCase(term)))
            \/ Includes(NumberToString(district.properties.districtNumber),
                        Trim(ToLowerCase(term))))

\* Combined results that count what the filters found, whatever is included
searchResultsCountingFilters(term) ==
    LET isActive == Len(term) >= searchOptions.minSearchLength
        resultPrograms == IF isActive /\ searchOptions.includePrograms
                          THEN filteredProgramsOf(term) ELSE <<>>
        resultDistricts == IF isActive /\ searchOptions.includeDistricts
                           THEN filteredDistrictsOf(term) ELSE <<>>
    IN  [programs       |-> resultPrograms,
         districts      |-> resultDistricts,
         isSearchActive |-> isActive,
         totalResults   |-> IF isActive
                            THEN Len(filteredProgramsOf(term)) + Len(filteredDistrictsOf(term))
                            ELSE 0]

\* searchResults when the search term is `term`
searchResultsOf(term) ==
    LET isActive == Len(term) >= searchOptions.minSearchLength
        resultPrograms == IF isActive /\ searchOptions.includePrograms
                          THEN filteredProgramsOf(term) ELSE <<>>
        resultDistricts == IF isActive /\ searchOptions.includeDistricts
                           THEN filteredDistrictsOf(term) ELSE <<>>
    IN  [programs       |-> resultPrograms,
         districts      |-> resultDistricts,
         isSearchActive |-> isActive,
         totalResults   |-> IF isActive
                            THEN Len(resultPrograms) + Len(resultDistricts) ELSE 0]

\* What the hook returns in the current render
filteredPrograms == filteredProgramsOf(searchTerm)
filteredDistricts == filteredDistrictsOf(searchTerm)
searchResults == searchResultsOf(searchTerm)

\* The sites and zone features the hook is given
SiteAustin ==
    [id |-> "program-1", name |-> <<"A", "u", "s", "t", "i", "n">>, address |-> <<"1", " ", "M", "a", "i", "n">>, grantee |-> <<"I", "S", "D">>]
SiteHouston ==
    [id |-> "program-2", name |-> <<"H", "o", "u", "s", "t", "o", "n">>, address |-> <<"2", " ", "O", "a", "k">>, grantee |-> <<"H", "C", "S">>]
SiteDallas ==
    [id |-> "program-3", name |-> <<"D", "a", "l", "l", "a", "s">>, address |-> <<"3", " ", "E", "l", "m">>]
SearchedPrograms == <<SiteAustin, SiteHouston, SiteDallas>>

SearchedFeature(districtNum, label, representative) ==
    [type       |-> "Feature",
     properties |-> [district       |-> <<"T", "X", "-">> \o NumberToString(districtNum),
                     name           |-> label,
                     representative |-> representative,
                     districtNumber |-> districtNum,
                     state          |-> "TX"]]
SearchedDistricts ==
    <<SearchedFeature(1, <<"T", "e", "x", "a", "s", " ", "1", "s", "t">>, <<"J", "o", "h", "n">>),
      SearchedFeature(2, <<"T", "e", "x", "a", "s", " ", "2", "n", "d">>, <<"J", "a", "n", "e">>),
      SearchedFeature(12, <<"T", "e", "x", "a", "s", " ", "1", "2", "t", "h">>, <<"K", "a", "y">>)>>

\* The options a caller can pass, merged over the defaults
SearchOptionSets ==
    [includePrograms : BOOLEAN, includeDistricts : BOOLEAN,
     minSearchLength : 0..MaxSearchLength]

\* The strings typed into the search box
Queries ==
    {<<>>, <<"a">>, <<" ", "a", " ">>, <<"a", "u", "s">>, <<" ", "A", "U", "S">>, <<"2">>, <<" ", "2", " ">>, <<"1", "2">>,
     <<" ", " ">>, <<"o", "a", "k">>, <<"i", "s", "d">>, <<"j", "a", "n", "e">>, <<"T", "X", "-">>, <<"z", "z">>}

SearchInit ==
    /\ InitHook("key")
    /\ \E options \in SearchOptionSets :
          InitSearch(SearchedPrograms, SearchedDistricts, options)
    /\ NoCall

handleSearchChange(value) ==
    /\ searchTerm' = value
    /\ isSearching' = (Len(value) >= searchOptions.minSearchLength)
    /\ UNCHANGED <<allPrograms, allDistricts, searchOptions>>
    /\ UNCHANGED <<siteVars, zoneVars, congressVars, reactVars, faults>>
    /\ UNCHANGED <<congressApiKey, members, layerVisibility, callVars>>

clearSearch ==
    /\ searchTerm' = <<>>
    /\ isSearching' = FALSE
    /\ UNCHANGED <<allPrograms, allDistricts, searchOptions>>
    /\ UNCHANGED <<siteVars, zoneVars, congressVars, reactVars, faults>>
    /\ UNCHANGED <<congressApiKey, members, layerVisibility, callVars>>

SearchNext ==
    \/ \E value \in Queries : handleSearchChange(value)
    \/ clearSearch

SearchSpec == SearchInit /\ [][SearchNext]_vars

(***************************************************************************)
(* Exported functions called on their own.  The call is given `argument`   *)
(* and leaves what it returns in `returned`; nothing else changes.         *)
(***************************************************************************)
\* A call changes nothing but `returned`
OnlyReturns ==
    /\ UNCHANGED <<siteVars, zoneVars, congressVars, reactVars, faults>>
    /\ UNCHANGED <<congressApiKey, members, layerVisibility, searchVars, argument>>

\* The hook is idle, and a function is about to be called with one of `arguments`
InitCall(arguments) ==
    /\ InitHook("key")
    /\ InitSearch(<<>>, <<>>, DefaultSearchOptions)
    /\ argument \in arguments
    /\ returned = <<>>

(***************************************************************************)
(* src/unnamed/part_011: point in polygon by ray casting.  A vertex is a   *)
(* pair; the code reads its second component as xi and its first as yi.    *)
(* Coordinates are integers, so the division of the code is compared       *)
(* exactly by cross-multiplying.                                           *)
(***************************************************************************)
\* The edge from vertex j to vertex i toggles `inside`
EdgeToggles(polygon, i, j, lat, lng) ==
    LET xi == polygon[i][2]
        yi == polygon[i][1]
        xj == polygon[j][2]
        yj == polygon[j][1]
    IN  /\ (yi > lat) # (yj > lat)
        /\ IF yj - yi > 0
           THEN (lng - xi) * (yj - yi) < (xj - xi) * (lat - yi)
           ELSE (lng - xi) * (yj - yi) > (xj - xi) * (lat - yi)

isPointInSinglePolygon(lat, lng, coordinates) ==
    IF Len(coordinates) = 0 THEN FALSE
    ELSE LET polygon == coordinates[1]
             toggles == {i \in 1..Len(polygon) :
                            EdgeToggles(polygon, i,
                                        IF i = 1 THEN Len(polygon) ELSE i - 1, lat, lng)}
         IN  Cardinality(toggles) % 2 = 1

isPointInMultiPolygon(lat, lng, coordinates) ==
    \E p \in 1..Len(coordinates) : isPointInSinglePolygon(lat, lng, coordinates[p])

isPointInPolygon(lat, lng, geometry) ==
    IF geometry.type = "Polygon"
    THEN isPointInSinglePolygon(lat, lng, geometry.coordinates)
    ELSE IF geometry.type = "MultiPolygon"
    THEN isPointInMultiPolygon(lat, lng, geometry.coordinates)
    ELSE FALSE

\* Outer rings, as GeoJSON gives them: <<longitude, latitude>>, closed
RingWest == <<<<-4, 1>>, <<-4, 3>>, <<-2, 3>>, <<-2, 1>>, <<-4, 1>>>>
RingEast == <<<<0, -2>>, <<0, 0>>, <<3, 0>>, <<3, -2>>, <<0, -2>>>>
RingCorner == <<<<-4, -4>>, <<0, -4>>, <<-4, 0>>, <<-4, -4>>>>

\* The geometries a zone feature can carry
Geometries ==
    << [type |-> "Polygon", coordinates |-> <<RingWest>>],
       [type |-> "Polygon", coordinates |-> <<RingCorner>>],
       [type |-> "Polygon", coordinates |-> <<>>],
       [type |-> "MultiPolygon", coordinates |-> << <<RingWest>>, <<RingEast>> >>],
       [type |-> "MultiPolygon", coordinates |-> <<>>] >>

\* Latitudes and longitudes of the points asked about
Grid == (0 - GridSize)..(GridSize - 1)

GeometryInit ==
    /\ InitHook("key")
    /\ InitSearch(<<>>, <<>>, DefaultSearchOptions)
    /\ \E lat \in Grid, lng \in Grid, g \in 1..Len(Geometries) :
          argument = [lat |-> lat, lng |-> lng, geometry |-> Geometries[g]]
    /\ returned = <<>>

CallIsPointInPolygon ==
    /\ returned = <<>>
    /\ returned' = <<isPointInPolygon(argument.lat, argument.lng, argument.geometry)>>
    /\ OnlyReturns

GeometryNext == CallIsPointInPolygon

GeometrySpec == GeometryInit /\ [][GeometryNext]_vars

(***************************************************************************)
(* processHeadStartPrograms called on its own, src/src/data/headStartPrograms.ts *)
(***************************************************************************)
RawBlankName ==
    [name |-> <<" ">>, address |-> <<"6">>,
     coordinates |-> [lat |-> Num(302672), lng |-> Num(-977431)]]
RawEmptyAddress ==
    [name |-> <<"E">>, address |-> <<>>,
     coordinates |-> [lat |-> Num(302672), lng |-> Num(-977431)]]
RawNoLat ==
    [name |-> <<"L">>, address |-> <<"7">>,
     coordinates |-> [lng |-> Num(-977431)]]
RawNoCoordinates ==
    [name |-> <<"C">>, address |-> <<"8">>]

RawRecords ==
    {RawAustin, RawHouston, RawBadLat, RawOutside, RawNoName,
     RawBlankName, RawEmptyAddress, RawNoLat, RawNoCoordinates}

RawLists == UNION {[1..n -> RawRecords] : n \in 0..MaxRecords}

ProcessInit == InitCall(RawLists)

\* The call either throws out of the map callback or returns the filtered list
CallProcessHeadStartPrograms ==
    /\ returned = <<>>
    /\ returned' = <<IF ProcessThrows(argument)
                     THEN [threw |-> "TypeError"]
                     ELSE [value |-> processHeadStartPrograms(argument)]>>
    /\ OnlyReturns

ProcessNext == CallProcessHeadStartPrograms

ProcessSpec == ProcessInit /\ [][ProcessNext]_vars

(***************************************************************************)
(* validateCongressionalDistrict called on its own, src/unnamed/part_011.    *)
(***************************************************************************)
DistrictNumberValues ==
    {Whole(1), Whole(36), Whole(0), Whole(-1), Halves(3), Halves(1), NaN, NotNumeric}

GeometryValues ==
    {[isNull |-> FALSE, coordinates |-> "coordinates"],
     [isNull |-> FALSE, coordinates |-> Undefined],
     [isNull |-> TRUE, coordinates |-> Undefined]}

ValidatedFeatures ==
    {[type |-> "Feature", properties |-> properties, geometry |-> geometry] :
        properties \in [district       : {"", "TX-1"},
                        name           : {"", "Texas 1st Congressional District"},
                        representative : {"", "Representative 1"},
                        districtNumber : DistrictNumberValues,
                        state          : {"TX", "CA"}],
        geometry \in GeometryValues}

ValidateInit == InitCall(ValidatedFeatures)

CallValidateCongressionalDistrict ==
    /\ returned = <<>>
    /\ returned' = <<validateCongressionalDistrict(argument)>>
    /\ OnlyReturns

ValidateNext == CallValidateCongressionalDistrict

ValidateSpec == ValidateInit /\ [][ValidateNext]_vars

(***************************************************************************)
(* Properties.                                                             *)
(***************************************************************************)
\* C1: once the retry count of a source reached the cap of 3, every step that is
\* not a retryLoading call keeps its error non-null and starts no attempt for it.
C1_CappedSourceStaysFailed ==
    [][ ~RetryLoading =>
          /\ (programsRetryCount >= MAX_RETRY_ATTEMPTS /\ programsError # Null)
               => (programsError' # Null /\ ProgramsAttempts' <= ProgramsAttempts)
          /\ (districtsRetryCount >= MAX_RETRY_ATTEMPTS /\ districtsError # Null)
               => (districtsError' # Null /\ DistrictsAttempts' <= DistrictsAttempts)
      ]_vars

\* C1: a source sits at the cap with its error shown and the mount effect pending
C1_CapReached ==
    /\ programsRetryCount = MAX_RETRY_ATTEMPTS
    /\ programsError # Null
    /\ rendered.programsError # Null
    /\ "loadHeadStartPrograms" \in mountEffect

\* C2: a step that is not a retryLoading call starts an attempt of a failed source
\* (error shown, retry count k+1 <= 3) only when 1000 * 2^k ms passed since the failure.
C2_RestartWaitsForBackoff ==
    [][ ~RetryLoading =>
          /\ ( /\ programsError # Null
               /\ programsRetryCount \in 1..MAX_RETRY_ATTEMPTS
               /\ ProgramsAttempts' > ProgramsAttempts )
               => programsSinceFail >= BackoffDelay(programsRetryCount - 1)
          /\ ( /\ districtsError # Null
               /\ districtsRetryCount \in 1..MAX_RETRY_ATTEMPTS
               /\ DistrictsAttempts' > DistrictsAttempts )
               => districtsSinceFail >= BackoffDelay(districtsRetryCount - 1)
      ]_vars

\* C2: the mount effect is about to restart a source that failed 0 ms ago
C2_RestartPendingAtOnce ==
    /\ programsError # Null
    /\ programsRetryCount = 1
    /\ programsSinceFail = 0
    /\ mountEffect = {"loadHeadStartPrograms"}
    /\ BagSize(programsTimers) = 1

\* C3: once the trigger effect ran for a render that saw loaded zones, with an API key
\* configured and enrichment neither run nor failed, the enrichment fetch is issued.
C3_EnrichmentFetchIssued ==
    ( /\ rendered.districtsLength > 0
      /\ ~rendered.isLoadingDistricts
      /\ ~EffectsPending
      /\ congressApiKey # Undefined
      /\ ~congressDataLoadedRef
      /\ congressDataError = Null )
      => CongressAttempts > 0

\* C3: the trigger effect ran after a successful zone load, and everything is at rest
C3_ZonesLoadedAtRest ==
    /\ rendered = CurrentView
    /\ rendered.districtsLength = NumDistricts - 1
    /\ ~isLoadingDistricts
    /\ districtsError = Null
    /\ ~EffectsPending
    /\ congressApiKey = "key"
    /\ ~congressDataLoadedRef
    /\ DistrictsAttempts = 0
    /\ BagSize(districtsTimers) = 0
    /\ CongressAttempts = 0

RetryLoadingStepAsSpecified ==
    /\ IF rendered.programsError # Null
       THEN /\ programsRetryCount' = 0
            /\ programsError' = Null
            /\ isLoadingPrograms'
            /\ ProgramsAttempts' = ProgramsAttempts + 1
       ELSE UNCHANGED <<headStartPrograms, isLoadingPrograms, programsError,
                        programsRetryCount, programsInFlight>>
    /\ IF rendered.districtsError # Null
       THEN /\ districtsRetryCount' = 0
            /\ districtsError' = Null
            /\ isLoadingDistricts'
            /\ DistrictsAttempts' = DistrictsAttempts + 1
       ELSE UNCHANGED <<congressionalDistricts, isLoadingDistricts, districtsError,
                        districtsRetryCount, districtsInFlight>>
    /\ IF rendered.congressDataError # Null
       THEN congressDataRetryCount' = 0 /\ ~congressDataLoadedRef'
       ELSE UNCHANGED congressVars
    /\ UNCHANGED <<programsTimers, districtsTimers>>

\* The effects pending are those of a retryLoading call that retried the sites alone:
\* neither source ever loaded, so the site count fell to 0 by that call, and the zone
\* count has been 0 all along, so the zones never showed an error.
SitesRetriedAlone ==
    /\ mountEffect = {"loadHeadStartPrograms"}
    /\ rendered.programsRetryCount = 0
    /\ headStartPrograms = <<>>
    /\ rendered.districtsRetryCount = 0
    /\ congressionalDistricts = <<>>

\* C5: a retryLoading call resets the retry count of every source whose error the
\* last render returned, clears its error and starts an attempt for it in the same
\* step, whatever timers are pending (for enrichment it also clears the already-ran
\* flag); a source whose error is null is not reloaded, neither by the call nor by
\* the effects that run because of it.
C5_RetryLoadingReloadsOnlyFailedSources ==
    [][ /\ RetryLoading => RetryLoadingStepAsSpecified
        /\ (FlushEffects /\ SitesRetriedAlone)
             => UNCHANGED <<isLoadingDistricts, districtsError, districtsInFlight>>
      ]_vars

\* C5: retryLoading reloaded the sites, which never loaded and whose backoff timer
\* of 1000 ms has not run down, and left the zones, whose error is null, alone
C5_RetriedBeforeBackoff ==
    /\ headStartPrograms = <<>>
    /\ rendered.programsError # Null
    /\ rendered.programsRetryCount = 1
    /\ programsRetryCount = 0
    /\ programsError = Null
    /\ programsInFlight[1] > 0
    /\ programsTimers[[count |-> 0, remaining |-> BackoffDelay(0)]] = 1
    /\ rendered.districtsError = Null
    /\ DistrictsAttempts = 0

\* The indices of a zone batch whose fetch succeeded
OkIndices(resp) == {n \in DistrictNumbers : resp[n] = "ok"}

\* The zone collection holds exactly one zone per index of `indices`, in index order
ZonesAre(districts, indices) ==
    /\ Len(districts) = Cardinality(indices)
    /\ {districts[i].number : i \in 1..Len(districts)} = indices
    /\ \A i, j \in 1..Len(districts) : i < j => districts[i].number < districts[j].number

\* C6: a zone batch with at least one succeeded index ends in success (districtsError
\* null, one zone per succeeded index, failed indices omitted); the batch fails, with
\* districtsError set, only when no index succeeded.
C6_ZoneBatchOutcome ==
    [][ \A count \in Counts, resp \in ZoneResponses :
          /\ DistrictsLoaded(count, resp)
               => /\ OkIndices(resp) # {}
                  /\ ZonesAre(congressionalDistricts', OkIndices(resp))
                  /\ districtsError' = Null
          /\ DistrictsFailed(count, resp)
               => /\ OkIndices(resp) = {}
                  /\ districtsError' # Null
                  /\ UNCHANGED congressionalDistricts
      ]_vars

\* C6: the batch that misses index 14 has loaded its 35 zones, and an error is shown
C6_LoadedWithError ==
    /\ ZonesAre(congressionalDistricts, DistrictNumbers \ {14})
    /\ districtsRetryCount = 0
    /\ ~isLoadingDistricts
    /\ districtsError # Null

\* C7: the step that processes a successful completion leaves the source with
\* error null and retry count 0.
C7_SuccessClearsErrorAndCount ==
    [][ /\ (\E count \in Counts, resp \in SiteResponses : ProgramsLoaded(count, resp))
             => (programsError' = Null /\ programsRetryCount' = 0)
        /\ (\E count \in Counts, resp \in ZoneResponses : DistrictsLoaded(count, resp))
             => (districtsError' = Null /\ districtsRetryCount' = 0)
      ]_vars

\* C7: a site load has succeeded (programs set, count 0) and the error of an
\* attempt that failed while it was in flight is still there
C7_SucceededWithError ==
    /\ headStartPrograms # <<>>
    /\ programsRetryCount = 0
    /\ programsError # Null
    /\ ProgramsAttempts = 0

\* C9: the effects that run because a site attempt failed leave the zone state
\* alone and start no zone batch, a site completion or timer changes no zone state,
\* and the same with sites and zones exchanged.
C9_SourcesChangeOnlyThemselves ==
    [][ /\ (FlushEffects /\ mountEffect = {"loadHeadStartPrograms"}
              /\ rendered.programsRetryCount > 0)
             => UNCHANGED <<congressionalDistricts, isLoadingDistricts, districtsError,
                            districtsRetryCount, districtsInFlight>>
        /\ (FlushEffects /\ mountEffect = {"loadCongressionalDistricts"}
              /\ rendered.districtsRetryCount > 0)
             => UNCHANGED <<headStartPrograms, isLoadingPrograms, programsError,
                            programsRetryCount, programsInFlight>>
        /\ ( \/ \E count \in Counts, resp \in SiteResponses :
                    ProgramsLoaded(count, resp) \/ ProgramsFailed(count, resp)
             \/ \E count \in TimerCounts : ProgramsTimer(count) )
             => UNCHANGED zoneVars
        /\ ( \/ \E count \in Counts, resp \in ZoneResponses :
                    DistrictsLoaded(count, resp) \/ DistrictsFailed(count, resp)
             \/ \E count \in TimerCounts : DistrictsTimer(count) )
             => UNCHANGED siteVars
      ]_vars

\* C9: a site attempt failed while the zones were loaded and at rest, and the mount
\* effect is pending for the site loader alone
C9_SiteFailureRendered ==
    /\ mountEffect = {"loadHeadStartPrograms"}
    /\ rendered.programsRetryCount = 1
    /\ programsError # Null
    /\ congressionalDistricts # <<>>
    /\ ~isLoadingDistricts
    /\ districtsError = Null
    /\ DistrictsAttempts = 0

\* A settled fetch of a site attempt, or of a zone batch, is processed
ProgramsSettled(count, resp) == ProgramsLoaded(count, resp) \/ ProgramsFailed(count, resp)
DistrictsSettled(count, resp) == DistrictsLoaded(count, resp) \/ DistrictsFailed(count, resp)

\* Every response can be processed for an attempt in flight: none is left to escape.
\* (Read before the first fault, where no bound of the model holds a response back.)
EveryResponseIsProcessed ==
    (~EffectsPending /\ faults = 0) =>
        /\ \A count \in Counts, resp \in SiteResponses :
              programsInFlight[count] > 0 => ENABLED ProgramsSettled(count, resp)
        /\ \A count \in Counts, resp \in ZoneResponses :
              districtsInFlight[count] > 0 => ENABLED DistrictsSettled(count, resp)

\* An attempt in flight is never stuck: once the pending effects ran, its fetch can settle
AttemptsCanFinish ==
    IF EffectsPending
    THEN ENABLED FlushEffects
    ELSE /\ \A count \in Counts :
              programsInFlight[count] > 0
                => ENABLED ProgramsLoaded(count, [kind |-> "array",
                                                  body |-> <<RawAustin, RawBadLat, RawHouston>>])
         /\ \A count \in Counts :
              districtsInFlight[count] > 0 => ENABLED DistrictsLoaded(count, Missing14)

\* C8: an attempt in flight can always finish, whatever its fetch answers, and every
\* step that ends an attempt ends one, clears the loading flag and records the
\* outcome: the data of a response with retry count 0, or a non-null error with the
\* data kept.
C8_AttemptsFinishIntoState ==
    /\ [](EveryResponseIsProcessed /\ AttemptsCanFinish)
    /\ [][ /\ ProgramsAttempts' < ProgramsAttempts
                => /\ ProgramsAttempts' = ProgramsAttempts - 1
                   /\ ~isLoadingPrograms'
                   /\ \/ /\ \E resp \in SiteResponses :
                              /\ ProgramsOutcome[resp].ok
                              /\ headStartPrograms' = ProgramsOutcome[resp].programs
                         /\ programsRetryCount' = 0
                      \/ /\ programsError' # Null
                         /\ UNCHANGED headStartPrograms
           /\ DistrictsAttempts' < DistrictsAttempts
                => /\ DistrictsAttempts' = DistrictsAttempts - 1
                   /\ ~isLoadingDistricts'
                   /\ \/ /\ \E resp \in ZoneResponses :
                              /\ DistrictsOutcome[resp].ok
                              /\ congressionalDistricts' = DistrictsOutcome[resp].districts
                              /\ rawDistrictFeatures' = DistrictsOutcome[resp].features
                         /\ districtsRetryCount' = 0
                      \/ /\ districtsError' # Null
                         /\ UNCHANGED <<congressionalDistricts, rawDistrictFeatures>>
         ]_vars

\* C8: the attempt whose response held a record without a name has finished, and
\* the TypeError thrown while normalizing it is recorded in programsError
C8_NormalizingThrowRecorded ==
    /\ programsError
         = ErrorMessage(ProgramsOutcome[[kind |-> "array",
                                         body |-> <<RawAustin, RawNoName>>]].error)
    /\ programsRetryCount = 1
    /\ ~isLoadingPrograms
    /\ ProgramsAttempts = 0
    /\ headStartPrograms = <<>>

\* C11: a step changes the site collection only by ending a site attempt and storing
\* the whole result of a successful response, and the zone collection (with its
\* features) only so for a zone batch; a step that ends an attempt in failure (the
\* retry count rises) leaves the collection as it was.
C11_CollectionsReplacedWholesale ==
    [][ /\ headStartPrograms' # headStartPrograms
             => /\ ProgramsAttempts' = ProgramsAttempts - 1
                /\ \E resp \in SiteResponses :
                      /\ ProgramsOutcome[resp].ok
                      /\ headStartPrograms' = ProgramsOutcome[resp].programs
        /\ <<congressionalDistricts, rawDistrictFeatures>>'
              # <<congressionalDistricts, rawDistrictFeatures>>
             => /\ DistrictsAttempts' = DistrictsAttempts - 1
                /\ \E resp \in ZoneResponses :
                      /\ DistrictsOutcome[resp].ok
                      /\ congressionalDistricts' = DistrictsOutcome[resp].districts
                      /\ rawDistrictFeatures' = DistrictsOutcome[resp].features
        /\ programsRetryCount' > programsRetryCount => UNCHANGED headStartPrograms
        /\ districtsRetryCount' > districtsRetryCount
             => UNCHANGED <<congressionalDistricts, rawDistrictFeatures>>
      ]_vars

\* C11: a site attempt failed after an earlier one had loaded the sites, which are kept
C11_FailedAfterLoaded ==
    /\ headStartPrograms # <<>>
    /\ programsRetryCount = 1
    /\ programsError # Null
    /\ ProgramsAttempts = 0

\* The zone `after` is the zone `before` with the five enrichment fields of `member`
EnrichedFrom(before, after, member) ==
    /\ after.number = before.number
    /\ after.population = before.population
    /\ after.geoJsonFeature = before.geoJsonFeature
    /\ after.representative = member.name
    /\ after.party = member.party
    /\ after.photoUrl = ImageUrl(member)
    /\ after.contact = [phone   |-> ContactInformation(member, "phoneNumber"),
                        email   |-> ContactInformation(member, "email"),
                        website |-> ContactInformation(member, "websiteUrl"),
                        office  |-> ContactInformation(member, "officeAddress")]
    /\ after.committees = CommitteeNames(member)

\* Indices of the member records whose district parses to the number of the zone
MatchesOf(district) ==
    {k \in 1..Len(members) : ParseInt(members[k].district) = Num(district.number)}

C13_SecondMergeChangesNothing ==
    [][ (congressDataLoadedRef /\ congressInFlight' # congressInFlight)
          => congressionalDistricts' = congressionalDistricts ]_vars

\* C13: both responses were merged, and a zone carries the committees of its member
C13_MergedTwice ==
    /\ congressDataLoadedRef
    /\ CongressAttempts = 0
    /\ \E i \in 1..Len(congressionalDistricts) :
          /\ "committees" \in DOMAIN congressionalDistricts[i]
          /\ congressionalDistricts[i].committees = <<"Budget">>

C15_HasErrorsIffSomeError ==
    hasErrors <=> \/ rendered.programsError # Null
                  \/ rendered.districtsError # Null
                  \/ rendered.congressDataError # Null

\* C15: a render returned hasErrors with the zone error as the only error
C15_OnlyZonesFailed ==
    /\ hasErrors
    /\ rendered.programsError = Null
    /\ rendered.districtsError # Null
    /\ rendered.congressDataError = Null

\* A layer switch leaves the collections, the loading flags, the errors and the retry
\* counts as they were, and neither starts nor ends a fetch or a timer
LayerSwitchLeavesTheRest ==
    /\ UNCHANGED <<headStartPrograms, congressionalDistricts, rawDistrictFeatures>>
    /\ UNCHANGED <<isLoadingPrograms, isLoadingDistricts, isLoadingCongressData>>
    /\ UNCHANGED <<programsError, districtsError, congressDataError>>
    /\ UNCHANGED <<programsRetryCount, districtsRetryCount, congressDataRetryCount>>
    /\ UNCHANGED <<programsInFlight, districtsInFlight, congressInFlight>>
    /\ UNCHANGED <<programsTimers, districtsTimers, mountEffect, congressEffect>>

\* C16: toggleLayer(l) negates flag l and setLayerVisibilityState(l, v) sets flag l to
\* v; each keeps every other flag, the collections, the loading flags, the errors
\* and the retry counts, and starts no fetch.
C16_LayerSwitchChangesOneFlag ==
    [][ \A layer \in Layers :
          /\ toggleLayer(layer)
               => /\ layerVisibility'[layer] = ~layerVisibility[layer]
                  /\ \A other \in Layers \ {layer} :
                        layerVisibility'[other] = layerVisibility[other]
                  /\ DOMAIN layerVisibility' = Layers
                  /\ LayerSwitchLeavesTheRest
          /\ \A visible \in BOOLEAN :
                setLayerVisibilityState(layer, visible)
                  => /\ layerVisibility'[layer] = visible
                     /\ \A other \in Layers \ {layer} :
                           layerVisibility'[other] = layerVisibility[other]
                     /\ DOMAIN layerVisibility' = Layers
                     /\ LayerSwitchLeavesTheRest
      ]_vars

\* C16: the site layer was hidden and the boundaries shown while a site load that
\* follows a failure was in flight and zones were stored
C16_SwitchedWhileLoading ==
    /\ ~layerVisibility.headStartPrograms
    /\ layerVisibility.districtBoundaries
    /\ ProgramsAttempts > 0
    /\ faults > 0
    /\ Len(congressionalDistricts) > 0

\* The text contains the query, trimmed, whatever the case of either
ContainsQuery(text, query) == Includes(ToLowerCase(text), ToLowerCase(Trim(query)))

\* The list `found` is the sub-list of `all`, in the order of `all`, of the elements
\* at the indices `wanted`
IsSubListAt(found, all, wanted) ==
    /\ Len(found) = Cardinality(wanted)
    /\ \A k \in 1..Len(found) :
          found[k] = all[CHOOSE i \in wanted : Cardinality({j \in wanted : j <= i}) = k]

\* Indices of the sites whose name, address or grantee contains the query
SitesWith(query) ==
    {i \in 1..Len(allPrograms) :
        \E field \in {"name", "address", "grantee"} \cap DOMAIN allPrograms[i] :
            ContainsQuery(allPrograms[i][field], query)}

\* C17: when the search term is at least as long as the gate and sites are included,
\* filteredPrograms is the sub-list, in the original order, of the sites whose name,
\* address or grantee contains the trimmed term whatever the case; otherwise it is
\* the full site list.
C17_FilteredProgramsAreTheMatches ==
    IF Len(searchTerm) >= searchOptions.minSearchLength /\ searchOptions.includePrograms
    THEN IsSubListAt(filteredPrograms, allPrograms, SitesWith(searchTerm))
    ELSE filteredPrograms = allPrograms

\* C17: " AUS" was typed with the gate at 2, and of three sites only Austin is found
C17_AusFindsAustin ==
    /\ searchTerm = <<" ", "A", "U", "S">>
    /\ searchOptions.minSearchLength = 2
    /\ searchOptions.includePrograms
    /\ Len(allPrograms) = 3
    /\ filteredPrograms = <<SiteAustin>>

IsPadded(padded, query) ==
    \E lead \in 0..(Len(padded) - Len(query)) :
        /\ SubSeq(padded, lead + 1, lead + Len(query)) = query
        /\ \A i \in 1..Len(padded) :
              (i <= lead \/ i > lead + Len(query)) => padded[i] = " "

\* C19: a handleSearchChange call stores the string it is given, and when that string
\* is the term stored before with spaces added around it, searchResults stays as it
\* was.
C19_PaddingKeepsSearchResults ==
    [][ \A value \in Queries :
          handleSearchChange(value)
            => /\ searchTerm' = value
               /\ IsPadded(value, searchTerm) => searchResultsOf(value) = searchResults
      ]_vars

\* C19: with the default options " a " was typed: the search is active, and it would
\* not be for "a"
C19_PaddedTermPassesGate ==
    /\ searchOptions = DefaultSearchOptions
    /\ searchTerm = <<" ", "a", " ">>
    /\ searchResults.isSearchActive
    /\ ~searchResultsOf(<<"a">>).isSearchActive

\* Indices of the zones whose name, representative, district code or decimal
\* districtNumber contains the query
ZonesWith(query) ==
    {i \in 1..Len(allDistricts) :
        \/ \E field \in {"name", "representative", "district"} :
              ContainsQuery(allDistricts[i].properties[field], query)
        \/ ContainsQuery(NumberToString(allDistricts[i].properties.districtNumber), query)}

\* C20: with the default options, when the search term is the decimal string of the
\* districtNumber of a zone, searchResults.districts is the sub-list of the zones
\* whose name, representative, district code or decimal districtNumber contains the
\* term, and that zone is in it.
C20_ZoneNumberFindsTheZone ==
    \A i \in 1..Len(allDistricts) :
        ( /\ searchOptions = DefaultSearchOptions
          /\ searchTerm = NumberToString(allDistricts[i].properties.districtNumber) )
          => /\ IsSubListAt(searchResults.districts, allDistricts, ZonesWith(searchTerm))
             /\ \E k \in 1..Len(searchResults.districts) :
                   searchResults.districts[k] = allDistricts[i]

\* C20: with the default options "2" was typed, zone 2 is among the zones, and
\* searchResults has no zone
C20_OneDigitFindsNothing ==
    /\ searchOptions = DefaultSearchOptions
    /\ searchTerm = <<"2">>
    /\ \E i \in 1..Len(allDistricts) : allDistricts[i].properties.districtNumber = 2
    /\ searchResults.districts = <<>>

\* The side of the ring edge from vertex k to vertex k + 1 the point lies on
Side(ring, k, lat, lng) ==
    (ring[k + 1][1] - ring[k][1]) * (lat - ring[k][2])
      - (ring[k + 1][2] - ring[k][2]) * (lng - ring[k][1])

\* The point is strictly inside the convex ring of <<longitude, latitude>> vertices
StrictlyInside(ring, lat, lng) ==
    \/ \A k \in 1..(Len(ring) - 1) : Side(ring, k, lat, lng) > 0
    \/ \A k \in 1..(Len(ring) - 1) : Side(ring, k, lat, lng) < 0

\* The point is strictly outside the convex ring
StrictlyOutside(ring, lat, lng) ==
    /\ \E k \in 1..(Len(ring) - 1) : Side(ring, k, lat, lng) > 0
    /\ \E k \in 1..(Len(ring) - 1) : Side(ring, k, lat, lng) < 0

\* The outer rings of a geometry
OuterRings(geometry) ==
    IF geometry.type = "Polygon"
    THEN (IF Len(geometry.coordinates) = 0 THEN {} ELSE {geometry.coordinates[1]})
    ELSE {geometry.coordinates[p][1] : p \in
             {q \in 1..Len(geometry.coordinates) : Len(geometry.coordinates[q]) > 0}}

\* C21: isPointInPolygon returned true for a point strictly inside an outer ring of
\* the geometry, false for a point strictly outside all of them, and false for a
\* geometry with no coordinates.
C21_PointInPolygonAnswer ==
    returned # <<>> =>
        LET rings == OuterRings(argument.geometry)
        IN  /\ (\E ring \in rings : StrictlyInside(ring, argument.lat, argument.lng))
                 => returned[1]
            /\ (\A ring \in rings : StrictlyOutside(ring, argument.lat, argument.lng))
                 => ~returned[1]
            /\ Len(argument.geometry.coordinates) = 0 => ~returned[1]

\* C21: the point at latitude 2, longitude -3 lies strictly inside the ring with
\* longitudes -4 to -2 and latitudes 1 to 3, and isPointInPolygon returned false
C21_InsideAnsweredOutside ==
    /\ argument.geometry = Geometries[1]
    /\ argument.lat = 2
    /\ argument.lng = -3
    /\ returned = <<FALSE>>

\* C22: every stored site has a non-empty name, a non-empty address and numeric
\* coordinates inside the bounding box of Texas.
C22_StoredSitesAreValid ==
    \A i \in 1..Len(headStartPrograms) :
        LET site == headStartPrograms[i]
        IN  /\ site.name # <<>>
            /\ site.address # <<>>
            /\ site.lat.isNumber
            /\ site.lng.isNumber
            /\ site.lat.value \in TexasSouth..TexasNorth
            /\ site.lng.value \in TexasWest..TexasEast

\* C22: the sites were stored from a response of three records whose second record
\* has a latitude that is not a number, and only the other two are stored
C22_BadLatitudeNotStored ==
    /\ headStartPrograms = processHeadStartPrograms(<<RawAustin, RawBadLat, RawHouston>>)
    /\ Len(headStartPrograms) = 2
    /\ ~isLoadingPrograms

\* A raw record with a name, an address and two numeric coordinates inside Texas
RawIsValid(raw) ==
    /\ "name" \in DOMAIN raw /\ "address" \in DOMAIN raw /\ "coordinates" \in DOMAIN raw
    /\ Trim(raw.name) # <<>>
    /\ Trim(raw.address) # <<>>
    /\ "lat" \in DOMAIN raw.coordinates /\ "lng" \in DOMAIN raw.coordinates
    /\ raw.coordinates.lat.isNumber /\ raw.coordinates.lng.isNumber
    /\ raw.coordinates.lat.value \in TexasSouth..TexasNorth
    /\ raw.coordinates.lng.value \in TexasWest..TexasEast

\* The valid records of a list, in its order, as name, address and coordinates
ValidRecords(rawData) ==
    LET valid == SelectSeq(rawData, RawIsValid)
    IN  [i \in 1..Len(valid) |->
            [name |-> Trim(valid[i].name), address |-> Trim(valid[i].address),
             lat |-> valid[i].coordinates.lat, lng |-> valid[i].coordinates.lng]]

\* The name, address and coordinates of a list of sites
SiteRecords(sites) ==
    [i \in 1..Len(sites) |->
        [name |-> sites[i].name, address |-> sites[i].address,
         lat |-> sites[i].lat, lng |-> sites[i].lng]]

\* C23: processHeadStartPrograms did not throw, and returned exactly the valid records
\* of its input, in input order, with trimmed name and address and the original
\* coordinates.
C23_ProcessReturnsTheValidRecords ==
    returned # <<>> =>
        /\ "value" \in DOMAIN returned[1]
        /\ SiteRecords(returned[1].value) = ValidRecords(argument)

\* C23: called with a valid record followed by a record without a name,
\* processHeadStartPrograms threw a TypeError
C23_MissingNameThrows ==
    /\ argument = <<RawAustin, RawNoName>>
    /\ returned = <<[threw |-> "TypeError"]>>

\* A districtNumber that is a positive integer
IsPositiveInteger(value) ==
    /\ value.typeof = "number"
    /\ ~value.isNaN
    /\ value.halves % 2 = 0
    /\ value.halves >= 2

\* C24: validateCongressionalDistrict returned false for a feature whose districtNumber
\* is not a positive integer, whose district, name or representative is empty, whose
\* state is not TX or whose geometry or coordinates are absent, and true for every
\* other feature.
C24_ValidIffEveryFieldIsGood ==
    returned # <<>> =>
        returned[1] =
            ( /\ IsPositiveInteger(argument.properties.districtNumber)
              /\ argument.properties.district # ""
              /\ argument.properties.name # ""
              /\ argument.properties.representative # ""
              /\ argument.properties.state = "TX"
              /\ ~argument.geometry.isNull
              /\ argument.geometry.coordinates # Undefined )

\* C24: a feature that is good in every other field and has the districtNumber 1.5
\* was answered true
C24_FractionAccepted ==
    /\ argument.properties.districtNumber = Halves(3)
    /\ returned = <<TRUE>>

\* The message of the kind of failure a site response is: a fetch that fails is a
\* network error, a body that cannot be parsed or is not an array a format error, an
\* array without a valid record an empty result.  (An HTTP status and an array that
\* cannot be processed are of no kind named here.)
SiteFailureMessages(resp) ==
    IF resp.kind \in {"failedToFetch", "rejected"} THEN {"Network error"}
    ELSE IF resp.kind \in {"unparsable", "notArray"} THEN {"Data format error"}
    ELSE IF resp.kind = "array" /\ ~ProcessThrows(resp.body)
    THEN {"Failed to load: No valid records"}
    ELSE {"Network error", "Data format error"}
            \cup {ErrorMessage(ProgramsOutcome[resp].error)}

\* C25: a failed site attempt stores the message of the kind of its failure, network
\* error, format error or empty result, and a failed zone batch, which fails only
\* by having no valid zone, the message of an empty result.
C25_FailureStoresMessageOfItsKind ==
    [][ /\ \A count \in Counts, resp \in SiteResponses :
              ProgramsFailed(count, resp) => programsError' \in SiteFailureMessages(resp)
        /\ \A count \in Counts, resp \in ZoneResponses :
              DistrictsFailed(count, resp)
                 => districtsError' = "Failed to load: No valid districts"
      ]_vars

\* C25: the attempt whose response was not an array has failed, and the stored
\* message is the general one with the text of the thrown error
C25_NotArrayStoredAsLoadFailure ==
    /\ programsError = "Failed to load: Expected an array"
    /\ programsRetryCount = 1
    /\ ~isLoadingPrograms

\* C26: every source has at most one attempt outstanding, in flight or scheduled by
\* a pending backoff timer.
C26_OneOutstandingAttemptPerSource ==
    /\ ProgramsAttempts + BagSize(programsTimers) <= 1
    /\ DistrictsAttempts + BagSize(districtsTimers) <= 1

\* C26: after one failure of the sites, a site attempt started by the mount effect is
\* in flight while the backoff timer of the failure is still pending
C26_RestartedBesideTimer ==
    /\ programsRetryCount = 1
    /\ faults = 1
    /\ ProgramsAttempts = 1
    /\ BagSize(programsTimers) = 1

\* C27: the three retry counts are between 0 and MAX_RETRY_ATTEMPTS.
C27_RetryCountsWithinMaximum ==
    /\ programsRetryCount \in 0..MAX_RETRY_ATTEMPTS
    /\ districtsRetryCount \in 0..MAX_RETRY_ATTEMPTS
    /\ congressDataRetryCount \in 0..MAX_RETRY_ATTEMPTS

\* C27: four site attempts have failed and the retry count of the sites is
\* MAX_RETRY_ATTEMPTS + 1
C27_FourthFailureCounted ==
    /\ faults = MAX_RETRY_ATTEMPTS + 1
    /\ programsRetryCount = MAX_RETRY_ATTEMPTS + 1

\* C28: the loading flag of a source is true whenever an attempt of the source is in
\* flight.
C28_LoadingWhileInFlight ==
    /\ ProgramsAttempts > 0 => isLoadingPrograms
    /\ DistrictsAttempts > 0 => isLoadingDistricts
    /\ CongressAttempts > 0 => isLoadingCongressData

\* C28: of two overlapping zone batches one has loaded and cleared the loading flag
\* of the zones, and the other is still in flight
C28_ZonesInFlightNotLoading ==
    /\ DistrictsAttempts = 1
    /\ ~isLoadingDistricts
    /\ congressionalDistricts # <<>>
    /\ districtsError = Null

====
